---- MODULE Spec2Model ----
(***************************************************************************)
(* AADHAAR DRISHTI dashboard (frontend/src/App.jsx): the App component's   *)
(* state, its two loading effects, the three aggregation memos, the model  *)
(* toggle and the briefing request generateBriefing.                       *)
(*                                                                         *)
(* JavaScript values are modelled as follows.  A row of /api/summary is a  *)
(* TLA+ record that holds only the fields the row has: a field that is     *)
(* absent from DOMAIN is undefined in the program, and "" is the empty     *)
(* string.  A value whose type is not fixed by the code (the briefing      *)
(* text, a response body) is a record tagged with its JavaScript type.     *)
(* The model identifiers are sequences of characters, so that toLowerCase  *)
(* and replace act on them as they do in the program.                      *)
(*                                                                         *)
(* Outside the model: handleFileUpload, which ends in a reload of the      *)
(* page, and the chartData memo.                                           *)
(***************************************************************************)
EXTENDS Integers, Sequences, FiniteSets, TLC

(***************************************************************************)
(* Bounds of the model.                                                    *)
(***************************************************************************)
\* Longest record set enumerated from RowUniverse.
MaxRecords == 3
\* N of the circuit breaker: consecutive failures that open it.
FailureThreshold == 2

(***************************************************************************)
(* Program constants.                                                      *)
(***************************************************************************)
\* .slice(0, 12) of studioData
TopK == 12

(***************************************************************************)
(* Rows of /api/summary.                                                   *)
(***************************************************************************)
Row1 ==
  [date |-> "2025-03-02", state |-> "Karnataka", district |-> "Udupi",
   total_updates |-> 2, total_enrolment |-> 1,
   age_0_5 |-> 1, age_5_17 |-> 0, age_18_greater |-> 2]
Row2 ==
  [date |-> "2025-03-01", state |-> "Karnataka", district |-> "Mysuru",
   total_updates |-> 2, total_enrolment |-> 0,
   age_0_5 |-> 0, age_5_17 |-> 1, age_18_greater |-> 1]
\* a row without date, district and age_5_17
Row3 ==
  [state |-> "Kerala", total_updates |-> 1, total_enrolment |-> 2,
   age_0_5 |-> 2, age_18_greater |-> 0]
\* rows whose district is a string of digits, and an empty state
Row4 ==
  [date |-> "2025-03-03", state |-> "", district |-> "560001",
   total_updates |-> 3, total_enrolment |-> 1,
   age_0_5 |-> 0, age_5_17 |-> 2, age_18_greater |-> 1]
Row5 ==
  [date |-> "2025-03-01", state |-> "Delhi", district |-> "110001",
   total_updates |-> 3, total_enrolment |-> 0,
   age_0_5 |-> 1, age_5_17 |-> 1, age_18_greater |-> 0]

RowUniverse == {Row1, Row2, Row3, Row4, Row5}

DistrictNames ==
  <<"Bagalkot", "Ballari", "Belagavi", "Bidar", "Chamarajanagar",
    "Chikkamagaluru", "Chitradurga", "Davanagere", "Dharwad", "Gadag",
    "Hassan", "Haveri", "Kalaburagi">>

\* One row for each of TopK + 1 districts, with ties among the totals.
WideRecordSet ==
  [i \in 1..(TopK + 1) |->
     [date |-> "2025-03-01", state |-> "Karnataka",
      district |-> DistrictNames[i],
      total_updates |-> (i % 3) + 1, total_enrolment |-> i,
      age_0_5 |-> 1, age_5_17 |-> 1, age_18_greater |-> 1]]

\* The bodies /api/summary answers with in the aggregation specification.
RecordSets ==
  UNION {[1..n -> RowUniverse] : n \in 0..MaxRecords} \cup {WideRecordSet}

(***************************************************************************)
(* JavaScript helpers.                                                     *)
(***************************************************************************)
\* o[k] || dflt, for a string-valued field: undefined and "" are falsy
StrOr(o, k, dflt) == IF k \in DOMAIN o /\ o[k] # "" THEN o[k] ELSE dflt

\* o[k] || 0, for a numeric field
NumOr0(o, k) == IF k \in DOMAIN o THEN o[k] ELSE 0

\* The array index a property key denotes, or -1: own properties whose key
\* is an array index are enumerated first, in ascending index order.
ArrayIndex(k) ==
  CASE k = "560001" -> 560001
    [] k = "110001" -> 110001
    [] OTHER -> -1

\* Date.parse of the date strings of the rows, in days; -1 is NaN
\* (Invalid Date).
DateParse(s) ==
  CASE s = "2025-03-01" -> 20148
    [] s = "2025-03-02" -> 20149
    [] s = "2025-03-03" -> 20150
    [] OTHER -> -1

\* Array.prototype.sort under a consistent comparator: the elements in the
\* comparator's order, equal elements in their original order (stable)
\* before[i][j] tells whether the comparator puts s[i] before s[j]
StableSort(s, before) ==
  LET n == Len(s)
      Rank(i) ==
        Cardinality({j \in 1..n :
                       \/ before[j][i]
                       \/ (~before[i][j] /\ j < i)}) + 1
  IN [k \in 1..n |-> s[CHOOSE i \in 1..n : Rank(i) = k]]

SeqPermutations(s) ==
  {[i \in 1..Len(s) |-> s[p[i]]] :
     p \in {q \in [1..Len(s) -> 1..Len(s)] :
              \A i, j \in 1..Len(s) : q[i] = q[j] => i = j}}

RECURSIVE Pick(_, _, _)
\* the elements s[i] whose index i is in keep, in the order of s from i on
Pick(s, keep, i) ==
  IF i > Len(s) THEN <<>>
  ELSE (IF i \in keep THEN <<s[i]>> ELSE <<>>) \o Pick(s, keep, i + 1)

\* Object.values of an object whose own properties were created in the
\* order of props, keys[i] being the property key of props[i]
ObjectValues(props, keys) ==
  LET isIndex == {i \in DOMAIN props : ArrayIndex(keys[i]) >= 0}
      indexed == Pick(props, isIndex, 1)
      indexKeys == Pick(keys, isIndex, 1)
      before == [i \in DOMAIN indexed |->
                   [j \in DOMAIN indexed |->
                      ArrayIndex(indexKeys[i]) < ArrayIndex(indexKeys[j])]]
  IN StableSort(indexed, before) \o Pick(props, DOMAIN props \ isIndex, 1)

\* s.slice(0, k)
Slice0(s, k) == SubSeq(s, 1, IF Len(s) < k THEN Len(s) ELSE k)

(***************************************************************************)
(* The aggregation memos.                                                  *)
(***************************************************************************)
RECURSIVE TrendReduce(_, _)
\* rawData.reduce of trendData; acc holds the entries in creation order
TrendReduce(rows, acc) ==
  IF rows = <<>> THEN acc
  ELSE
    LET curr == Head(rows)
        d == StrOr(curr, "date", "N/A")
        acc1 == IF \E i \in DOMAIN acc : acc[i].date = d THEN acc
                ELSE Append(acc, [date |-> d, updates |-> 0, enrolments |-> 0])
        at == CHOOSE i \in DOMAIN acc1 : acc1[i].date = d
        acc2 == [acc1 EXCEPT
                   ![at].updates = @ + NumOr0(curr, "total_updates"),
                   ![at].enrolments = @ + NumOr0(curr, "total_enrolment")]
    IN TrendReduce(Tail(rows), acc2)

\* new Date(a.date) - new Date(b.date) < 0; with an Invalid Date the
\* difference is NaN, which sort takes as +0
DateBefore(a, b) ==
  /\ DateParse(a.date) >= 0
  /\ DateParse(b.date) >= 0
  /\ DateParse(a.date) < DateParse(b.date)

\* A consistent comparator orders the elements in classes: being equal
\* under it is transitive.
Consistent(before) ==
  LET Same(i, j) == ~before[i][j] /\ ~before[j][i]
  IN \A i, j, k \in DOMAIN before :
       Same(i, j) /\ Same(j, k) => Same(i, k)

\* The values trendData can take for rows.  When the comparator is not
\* consistent (an Invalid Date among entries of different dates) the
\* order sort leaves is implementation-defined.
TrendOutcomes(rows) ==
  IF Len(rows) = 0 THEN {<<>>}
  ELSE
    LET map == TrendReduce(rows, <<>>)
        vals == ObjectValues(map, [i \in DOMAIN map |-> map[i].date])
        before == [i \in DOMAIN vals |->
                     [j \in DOMAIN vals |-> DateBefore(vals[i], vals[j])]]
    IN IF Consistent(before)
       THEN {StableSort(vals, before)}
       ELSE SeqPermutations(vals)

RECURSIVE StudioReduce(_, _, _, _)
\* rawData.reduce of studioData
StudioReduce(rows, px, py, acc) ==
  IF rows = <<>> THEN acc
  ELSE
    LET curr == Head(rows)
        xVal == StrOr(curr, px, "Unknown")
        acc1 == IF \E i \in DOMAIN acc : acc[i].name = xVal THEN acc
                ELSE Append(acc, [name |-> xVal, value |-> 0])
        at == CHOOSE i \in DOMAIN acc1 : acc1[i].name = xVal
        acc2 == [acc1 EXCEPT ![at].value = @ + NumOr0(curr, py)]
    IN StudioReduce(Tail(rows), px, py, acc2)

\* b.value - a.value < 0
ValueBefore(a, b) == b.value < a.value

StudioDataOf(rows, px, py) ==
  IF Len(rows) = 0 THEN <<>>
  ELSE
    LET map == StudioReduce(rows, px, py, <<>>)
        vals == ObjectValues(map, [i \in DOMAIN map |-> map[i].name])
        before == [i \in DOMAIN vals |->
                     [j \in DOMAIN vals |-> ValueBefore(vals[i], vals[j])]]
    IN Slice0(StableSort(vals, before), TopK)

RECURSIVE DemoReduce(_, _)
\* rawData.reduce of demographicSplit
DemoReduce(rows, acc) ==
  IF rows = <<>> THEN acc
  ELSE
    LET curr == Head(rows)
    IN DemoReduce(Tail(rows),
                  [infants |-> acc.infants + NumOr0(curr, "age_0_5"),
                   students |-> acc.students + NumOr0(curr, "age_5_17"),
                   adults |-> acc.adults + NumOr0(curr, "age_18_greater")])

\* Mutant of DemographicSplitOf: the adults bucket reads s.students.
DemographicSplitSwapped(rows) ==
  IF Len(rows) = 0 THEN <<>>
  ELSE
    LET s == DemoReduce(rows, [infants |-> 0, students |-> 0, adults |-> 0])
    IN <<[name |-> "Infants (0-5)", value |-> s.infants, color |-> "#38bdf8"],
         [name |-> "Students (5-17)", value |-> s.students, color |-> "#818cf8"],
         [name |-> "Adults (18+)", value |-> s.students, color |-> "#c084fc"]>>

DemographicSplitOf(rows) ==
  IF Len(rows) = 0 THEN <<>>
  ELSE
    LET s == DemoReduce(rows, [infants |-> 0, students |-> 0, adults |-> 0])
    IN <<[name |-> "Infants (0-5)", value |-> s.infants, color |-> "#38bdf8"],
         [name |-> "Students (5-17)", value |-> s.students, color |-> "#818cf8"],
         [name |-> "Adults (18+)", value |-> s.adults, color |-> "#c084fc"]>>

(***************************************************************************)
(* JavaScript values and strings.                                          *)
(***************************************************************************)
JsString(s) == [type |-> "string", text |-> s]
JsNumber(n) == [type |-> "number", number |-> n]
JsUndefined == [type |-> "undefined"]
JsNull == [type |-> "null"]

\* o[k] of a tagged object: undefined when the object has no such property
Prop(o, k) == IF k \in DOMAIN o THEN o[k] ELSE JsUndefined

\* The two model identifiers, as sequences of characters.
XGBoost == <<"X", "G", "B", "o", "o", "s", "t">>
RandomForest == <<"R", "a", "n", "d", "o", "m", "F", "o", "r", "e", "s", "t">>

LowerChar(c) ==
  CASE c = "X" -> "x"
    [] c = "G" -> "g"
    [] c = "B" -> "b"
    [] c = "R" -> "r"
    [] c = "F" -> "f"
    [] OTHER -> c

\* s.toLowerCase()
ToLowerCase(s) == [i \in DOMAIN s |-> LowerChar(s[i])]

\* s.replace(pat, rep) with a string pattern: the first occurrence only
Replace(s, pat, rep) ==
  LET hits == {i \in 1..(Len(s) - Len(pat) + 1) :
                 SubSeq(s, i, i + Len(pat) - 1) = pat}
  IN IF hits = {} THEN s
     ELSE LET i == CHOOSE h \in hits : \A g \in hits : h <= g
          IN SubSeq(s, 1, i - 1) \o rep \o SubSeq(s, i + Len(pat), Len(s))

RECURSIVE Join(_)
\* the property key a sequence of characters spells
Join(s) == IF s = <<>> THEN "" ELSE Head(s) \o Join(Tail(s))

\* activeModel === 'XGBoost' ? 'xgboost' : 'random_forest'
ModelKey(m) == IF m = XGBoost THEN "xgboost" ELSE "random_forest"

\* Mutant of LabKey: replace applied before toLowerCase, so that the
\* pattern 'forest' misses the 'Forest' of 'RandomForest'.
LabKeyReplaceFirst(m) ==
  Join(ToLowerCase(Replace(m,
                           <<"f", "o", "r", "e", "s", "t">>,
                           <<"_", "f", "o", "r", "e", "s", "t">>)))

\* activeModel.toLowerCase().replace('forest', '_forest')
LabKey(m) ==
  Join(Replace(ToLowerCase(m),
               <<"f", "o", "r", "e", "s", "t">>,
               <<"_", "f", "o", "r", "e", "s", "t">>))

(***************************************************************************)
(* Responses of the backend.                                               *)
(***************************************************************************)
\* /api/summary in the dashboard specification; the last has no body
SummaryResponses ==
  {[status |-> 200, data |-> <<Row1, Row2>>],
   [status |-> 200, data |-> <<Row3, Row1>>],
   [status |-> 200]}

\* /api/summary in the aggregation specification
AggSummaryResponses ==
  {[status |-> 200, data |-> d] : d \in RecordSets} \cup {[status |-> 200]}

\* /api/governance-indices
GovernanceResponse ==
  <<[subject |-> "Coverage", A |-> 80], [subject |-> "Velocity", A |-> 65]>>

\* /api/model-comparison; a confidence c stands for the number c / 10000
ModelComparisonResponses ==
  {[xgboost |-> [val |-> "4.52", confidence |-> 9149],
    random_forest |-> [val |-> "4.31", confidence |-> 8731]],
   [xgboost |-> [val |-> "5.10", confidence |-> 9000],
    random_forest |-> [val |-> "4.87", confidence |-> 9582]]}

\* /api/ai-interpret: a timeout, an error status, and 2xx bodies
BriefingResponses ==
  {[kind |-> "timeout"],
   [kind |-> "error", status |-> 500],
   [kind |-> "ok", status |-> 200, data |-> JsNull],
   [kind |-> "ok", status |-> 200, data |-> [type |-> "object"]],
   [kind |-> "ok", status |-> 200,
    data |-> [type |-> "object", interpretation |-> JsNumber(42)]],
   [kind |-> "ok", status |-> 200,
    data |-> [type |-> "object",
              interpretation |-> JsString("Enrolment load is rising.")]]}

\* {interpretation: string} in a 2xx response
WellFormed(res) ==
  /\ res.kind = "ok"
  /\ res.data.type = "object"
  /\ Prop(res.data, "interpretation").type = "string"

FallbackText == "Strategic Briefing failed. Verify backend AI configuration."

NoReq == [idle |-> TRUE]
NoRes == [none |-> TRUE]

(***************************************************************************)
(* The briefing payload.                                                   *)
(***************************************************************************)
\* predictionDetails?.[modelKey]
CurrentPred(details, m) ==
  IF details = JsNull THEN JsUndefined ELSE Prop(details, ModelKey(m))

\* `${(c * 100).toFixed(1)}%` for the number c / 10000
PercentText(c) ==
  LET tenths == (c + 5) \div 10
  IN ToString(tenths \div 10) \o "." \o ToString(tenths % 10) \o "%"

\* `${(currentPred?.confidence * 100).toFixed(1)}%`
ConfidenceText(pred) ==
  IF "confidence" \in DOMAIN pred THEN PercentText(pred.confidence)
  ELSE "NaN%"

BriefingPayload(m, details) ==
  LET currentPred == CurrentPred(details, m)
  IN [model |-> m,
      volume |-> StrOr(currentPred, "val", "N/A"),
      confidence |-> ConfidenceText(currentPred),
      district |-> "National Strategic Grid"]

(***************************************************************************)
(* State.                                                                  *)
(***************************************************************************)
VARIABLES
  rawData, governanceData, predictionDetails, status, activeModel,
  aiBriefing, isAiLoading, pivotX, pivotY,   \* useState of App
  trendData,        \* the trendData memo
  summary,          \* position of init: "fetching" or "done"
  analytics,        \* position of fetchAnalytics: "idle", "fetching", "done"
  req,              \* the payload of the axios.post in flight, or NoReq
  lastRes,          \* the response the last briefing request got, or NoRes
  inFlight,         \* the number of axios.post calls of generateBriefing
                    \* that have not settled
  breaker, consecFailures, openedBy, probing
                    \* the circuit breaker of the Briefing Gateway

appVars ==
  <<rawData, governanceData, predictionDetails, status, activeModel,
    aiBriefing, isAiLoading, pivotX, pivotY, trendData, summary, analytics,
    req, lastRes, inFlight>>
breakerVars == <<breaker, consecFailures, openedBy, probing>>
vars == <<appVars, breakerVars>>

\* the studioData and demographicSplit memos
studioData == StudioDataOf(rawData, pivotX, pivotY)
demographicSplit == DemographicSplitOf(rawData)

Init ==
  /\ rawData = <<>>
  /\ governanceData = <<>>
  /\ predictionDetails = JsNull
  /\ status = "INITIALIZING"
  /\ activeModel = XGBoost
  /\ aiBriefing = JsString("")
  /\ isAiLoading = FALSE
  /\ pivotX = "district"
  /\ pivotY = "total_updates"
  /\ trendData = <<>>
  /\ summary = "fetching"
  /\ analytics = "idle"
  /\ req = NoReq
  /\ lastRes = NoRes
  /\ inFlight = 0
  /\ breaker = "CLOSED"
  /\ consecFailures = 0
  /\ openedBy = "none"
  /\ probing = FALSE

\* The dashboard is rendered once status has left "INITIALIZING".
Rendered == status # "INITIALIZING"

(***************************************************************************)
(* The circuit breaker of the Briefing Gateway (CLOSED, OPEN, HALF_OPEN),  *)
(* kept beside the program as an observer of its calls to the service:     *)
(* App.jsx itself holds no breaker state.                                  *)
(***************************************************************************)
\* a call is issued: in HALF_OPEN it is the probe
BreakerOnCall ==
  /\ probing' = (breaker = "HALF_OPEN")
  /\ UNCHANGED <<breaker, consecFailures, openedBy>>

\* the call in flight ended with res
BreakerOnResult(res) ==
  LET failed == ~WellFormed(res)
  IN /\ probing' = FALSE
     /\ IF probing
        THEN /\ breaker' = IF failed THEN "OPEN" ELSE "CLOSED"
             /\ openedBy' = IF failed THEN "probe" ELSE "none"
             /\ consecFailures' = IF failed THEN consecFailures ELSE 0
        ELSE IF breaker = "CLOSED"
        THEN LET n == IF failed THEN consecFailures + 1 ELSE 0
             IN /\ consecFailures' = n
                /\ breaker' = IF n >= FailureThreshold THEN "OPEN" ELSE "CLOSED"
                /\ openedBy' = IF n >= FailureThreshold THEN "threshold"
                                ELSE "none"
        ELSE UNCHANGED <<breaker, consecFailures, openedBy>>

\* the cooldown interval of an open breaker elapses
CooldownElapses ==
  /\ breaker = "OPEN"
  /\ breaker' = "HALF_OPEN"
  /\ UNCHANGED <<consecFailures, openedBy, probing>>
  /\ UNCHANGED appVars

(***************************************************************************)
(* The loading effects.                                                    *)
(***************************************************************************)
\* init: axios.get of /api/summary resolves; the effect on [rawData] then
\* starts fetchAnalytics when there are rows
LoadSummarySucceeds(responses) ==
  /\ summary = "fetching"
  /\ \E res \in responses :
       LET data == IF "data" \in DOMAIN res THEN res.data ELSE <<>>
       IN /\ rawData' = data
          /\ trendData' \in TrendOutcomes(data)
          /\ analytics' = IF Len(data) > 0 THEN "fetching" ELSE analytics
  /\ status' = "SYSTEM ONLINE"
  /\ summary' = "done"
  /\ UNCHANGED <<governanceData, predictionDetails, activeModel, aiBriefing,
                 isAiLoading, pivotX, pivotY, req, lastRes,
                 inFlight>>
  /\ UNCHANGED breakerVars

\* init: axios.get of /api/summary rejects
LoadSummaryFails ==
  /\ summary = "fetching"
  /\ status' = "CONNECTION ERROR"
  /\ summary' = "done"
  /\ UNCHANGED <<rawData, governanceData, predictionDetails, activeModel,
                 aiBriefing, isAiLoading, pivotX, pivotY, trendData, analytics,
                 req, lastRes,
                 inFlight>>
  /\ UNCHANGED breakerVars

\* fetchAnalytics: both requests resolve
AnalyticsSucceeds ==
  /\ analytics = "fetching"
  /\ governanceData' = GovernanceResponse
  /\ predictionDetails' \in ModelComparisonResponses
  /\ analytics' = "done"
  /\ UNCHANGED <<rawData, status, activeModel, aiBriefing, isAiLoading,
                 pivotX, pivotY, trendData, summary, req, lastRes,
                 inFlight>>
  /\ UNCHANGED breakerVars

\* fetchAnalytics: one of the requests rejects
AnalyticsFails ==
  /\ analytics = "fetching"
  /\ analytics' = "done"
  /\ UNCHANGED <<rawData, governanceData, predictionDetails, status,
                 activeModel, aiBriefing, isAiLoading, pivotX, pivotY,
                 trendData, summary, req, lastRes,
                 inFlight>>
  /\ UNCHANGED breakerVars

(***************************************************************************)
(* The controls of the dashboard.                                          *)
(***************************************************************************)
\* the DIMENSION select
SetPivotX ==
  /\ Rendered
  /\ \E x \in {"state", "district", "date"} : x # pivotX /\ pivotX' = x
  /\ UNCHANGED <<rawData, governanceData, predictionDetails, status,
                 activeModel, aiBriefing, isAiLoading, pivotY, trendData,
                 summary, analytics, req, lastRes,
                 inFlight>>
  /\ UNCHANGED breakerVars

\* the METRIC select
SetPivotY ==
  /\ Rendered
  /\ \E y \in {"total_updates", "total_enrolment"} : y # pivotY /\ pivotY' = y
  /\ UNCHANGED <<rawData, governanceData, predictionDetails, status,
                 activeModel, aiBriefing, isAiLoading, pivotX, trendData,
                 summary, analytics, req, lastRes,
                 inFlight>>
  /\ UNCHANGED breakerVars

\* the two toggle buttons of the Prediction Lab
ToggleModel ==
  /\ Rendered
  /\ activeModel' \in {XGBoost, RandomForest}
  /\ aiBriefing' = JsString("")
  /\ UNCHANGED <<rawData, governanceData, predictionDetails, status,
                 isAiLoading, pivotX, pivotY, trendData, summary, analytics,
                 req, lastRes,
                 inFlight>>
  /\ UNCHANGED breakerVars

(***************************************************************************)
(* generateBriefing.                                                       *)
(***************************************************************************)
\* res.data.interpretation throws on a null body; a rejected request throws
Throws(res) == res.kind # "ok" \/ res.data = JsNull

\* the button, disabled while isAiLoading: up to the await of axios.post
GenerateBriefing ==
  /\ Rendered
  /\ ~isAiLoading
  /\ isAiLoading' = TRUE
  /\ req' = BriefingPayload(activeModel, predictionDetails)
  /\ inFlight' = inFlight + 1
  /\ BreakerOnCall
  /\ UNCHANGED <<rawData, governanceData, predictionDetails, status,
                 activeModel, aiBriefing, pivotX, pivotY, trendData, summary,
                 analytics, lastRes>>

\* Mutant of BriefingSettles: the catch block also reports the failure in
\* the connection status.
BriefingSettlesMarkingOffline ==
  /\ req # NoReq
  /\ \E res \in BriefingResponses :
       /\ aiBriefing' = IF Throws(res) THEN JsString(FallbackText)
                        ELSE Prop(res.data, "interpretation")
       /\ status' = IF Throws(res) THEN "CONNECTION ERROR" ELSE status
       /\ lastRes' = res
       /\ BreakerOnResult(res)
  /\ isAiLoading' = FALSE
  /\ req' = NoReq
  /\ inFlight' = inFlight - 1
  /\ UNCHANGED <<rawData, governanceData, predictionDetails, activeModel,
                 pivotX, pivotY, trendData, summary, analytics>>

\* Mutant of BriefingSettles: setIsAiLoading(false) at the end of the try
\* block instead of in finally, so that a request that throws leaves the
\* flag set.
BriefingSettlesNoFinally ==
  /\ req # NoReq
  /\ \E res \in BriefingResponses :
       /\ aiBriefing' = IF Throws(res) THEN JsString(FallbackText)
                        ELSE Prop(res.data, "interpretation")
       /\ isAiLoading' = IF Throws(res) THEN isAiLoading ELSE FALSE
       /\ lastRes' = res
       /\ BreakerOnResult(res)
  /\ req' = NoReq
  /\ inFlight' = inFlight - 1
  /\ UNCHANGED <<rawData, governanceData, predictionDetails, status,
                 activeModel, pivotX, pivotY, trendData, summary, analytics>>

\* the request settles: try, catch and finally
BriefingSettles ==
  /\ req # NoReq
  /\ \E res \in BriefingResponses :
       /\ aiBriefing' = IF Throws(res) THEN JsString(FallbackText)
                        ELSE Prop(res.data, "interpretation")
       /\ lastRes' = res
       /\ BreakerOnResult(res)
  /\ isAiLoading' = FALSE
  /\ req' = NoReq
  /\ inFlight' = inFlight - 1
  /\ UNCHANGED <<rawData, governanceData, predictionDetails, status,
                 activeModel, pivotX, pivotY, trendData, summary, analytics>>

(***************************************************************************)
(* Specifications.                                                         *)
(***************************************************************************)
Next ==
  \/ LoadSummarySucceeds(SummaryResponses)
  \/ LoadSummaryFails
  \/ AnalyticsSucceeds
  \/ AnalyticsFails
  \/ SetPivotX
  \/ SetPivotY
  \/ ToggleModel
  \/ GenerateBriefing
  \/ BriefingSettles
  \/ CooldownElapses

\* the dashboard
Spec == Init /\ [][Next]_vars

NextAgg ==
  \/ LoadSummarySucceeds(AggSummaryResponses)
  \/ LoadSummaryFails
  \/ AnalyticsSucceeds
  \/ AnalyticsFails
  \/ SetPivotX
  \/ SetPivotY

\* the dashboard, every axios.post of generateBriefing settling in the end
\* (it resolves or rejects)
SpecLive == Spec /\ WF_vars(BriefingSettles)

\* the aggregation memos over every record set of the bounds
SpecAgg == Init /\ [][NextAgg]_vars

TypeOK ==
  /\ status \in {"INITIALIZING", "SYSTEM ONLINE", "CONNECTION ERROR"}
  /\ isAiLoading \in BOOLEAN
  /\ isAiLoading <=> req # NoReq
  /\ inFlight \in 0..1
  /\ breaker \in {"CLOSED", "OPEN", "HALF_OPEN"}
  /\ consecFailures \in 0..FailureThreshold
  /\ Len(studioData) <= TopK
  /\ Len(demographicSplit) \in {0, 3}

(***************************************************************************)
(* Properties.                                                             *)
(***************************************************************************)
\* a briefing request is issued in this step: axios.post is called
CallIssued == req = NoReq /\ req' # NoReq

\* a briefing request settles in this step
CallSettled == req # NoReq /\ req' = NoReq

RECURSIVE SumSeq(_)
SumSeq(s) == IF s = <<>> THEN 0 ELSE Head(s) + SumSeq(Tail(s))

\* the sum of a numeric field over the rows whose index is in sel
FieldSum(rows, k, sel) ==
  SumSeq([i \in 1..Len(rows) |->
            IF i \in sel /\ k \in DOMAIN rows[i] THEN rows[i][k] ELSE 0])

\* C1: after FailureThreshold consecutive failed briefing calls the breaker
\* is OPEN, and a briefing request made while the breaker is OPEN makes no
\* call to the external text-generation service.
C1_OpenShortCircuits ==
  [][/\ (consecFailures' >= FailureThreshold => breaker' # "CLOSED")
     /\ (breaker = "OPEN" => ~CallIssued)]_vars

\* C2: a briefing request whose external call fails in any way (timeout,
\* error status, a body that is not {interpretation: string}) leaves the
\* fallback string as the briefing.
C2_FailureDegrades ==
  [][CallSettled /\ ~WellFormed(lastRes')
       => aiBriefing' = JsString(FallbackText)]_vars

\* C3: a step of a briefing request, issued or settled, leaves the record
\* set, the time series, the pivot table (the memo of rawData, pivotX and
\* pivotY), the forecast results, the governance indices, the selected
\* model and the connection status unchanged.
C3_ReadOnly ==
  [][req' # req =>
       /\ rawData' = rawData
       /\ trendData' = trendData
       /\ pivotX' = pivotX
       /\ pivotY' = pivotY
       /\ predictionDetails' = predictionDetails
       /\ governanceData' = governanceData
       /\ activeModel' = activeModel
       /\ status' = status]_vars

\* C3 witness: a briefing request has settled with rows, forecasts and
\* governance indices loaded, and its text is shown.
C3_Witness ==
  /\ lastRes # NoRes
  /\ WellFormed(lastRes)
  /\ req = NoReq
  /\ aiBriefing = lastRes.data.interpretation
  /\ Len(rawData) > 0
  /\ Len(studioData) > 0
  /\ predictionDetails # JsNull
  /\ governanceData # <<>>

\* C4: every call to the service carries exactly the four fields model,
\* volume, confidence and district, and the volume and confidence are
\* those of the forecast result of the model selected when the request is
\* issued.
C4_PayloadOfSelected ==
  [][CallIssued =>
       /\ DOMAIN req' = {"model", "volume", "confidence", "district"}
       /\ req'.model = activeModel
       /\ predictionDetails # JsNull
       /\ activeModel = XGBoost =>
            /\ req'.volume = predictionDetails.xgboost.val
            /\ req'.confidence =
                 PercentText(predictionDetails.xgboost.confidence)
       /\ activeModel = RandomForest =>
            /\ req'.volume = predictionDetails.random_forest.val
            /\ req'.confidence =
                 PercentText(predictionDetails.random_forest.confidence)]_vars

\* C5: in HALF_OPEN one probe call reaches the service and its outcome
\* alone leaves HALF_OPEN: a success for CLOSED, a failure for OPEN, and
\* after a failed probe no call reaches the service until the cooldown
\* has elapsed again.
C5_ProbeDrivesBreaker ==
  [][/\ (breaker = "HALF_OPEN" /\ probing /\ CallSettled =>
           breaker' = IF WellFormed(lastRes') THEN "CLOSED" ELSE "OPEN")
     /\ (breaker = "HALF_OPEN" /\ probing => ~CallIssued)
     /\ (breaker = "OPEN" /\ openedBy = "probe" => ~CallIssued)]_vars

\* the dates of the rows that have one
RowDates ==
  {rawData[i].date :
     i \in {j \in DOMAIN rawData :
              "date" \in DOMAIN rawData[j] /\ rawData[j].date # ""}}

\* C6: the time series has one point per distinct date of the record set,
\* with the sums of total_updates and total_enrolment over the rows of that
\* date; the dates of its points are strictly increasing, and a bucket of
\* rows without a date, if any, is the last point.
C6_TimeSeries ==
  summary = "done" =>
    /\ \A d \in RowDates :
         LET OnDate == {i \in DOMAIN rawData :
                          "date" \in DOMAIN rawData[i] /\ rawData[i].date = d}
         IN Cardinality({i \in DOMAIN trendData : trendData[i].date = d}) = 1
            /\ \A i \in DOMAIN trendData :
                 trendData[i].date = d =>
                   /\ trendData[i].updates =
                        FieldSum(rawData, "total_updates", OnDate)
                   /\ trendData[i].enrolments =
                        FieldSum(rawData, "total_enrolment", OnDate)
    /\ \A i \in DOMAIN trendData :
         trendData[i].date \notin RowDates => i = Len(trendData)
    /\ \A i, j \in DOMAIN trendData :
         i < j /\ trendData[i].date \in RowDates
               /\ trendData[j].date \in RowDates
           => /\ DateParse(trendData[i].date) >= 0
              /\ DateParse(trendData[i].date) < DateParse(trendData[j].date)

\* the value of the pivot dimension of a row
GroupOf(r) == StrOr(r, pivotX, "Unknown")

PivotGroups == {GroupOf(rawData[i]) : i \in DOMAIN rawData}

PivotTotal(g) ==
  FieldSum(rawData, pivotY,
           {i \in DOMAIN rawData : GroupOf(rawData[i]) = g})

FirstSeen(g) ==
  CHOOSE i \in DOMAIN rawData :
    /\ GroupOf(rawData[i]) = g
    /\ \A j \in DOMAIN rawData : GroupOf(rawData[j]) = g => i <= j

\* C7: the pivot table holds min(TopK, number of groups) entries, one per
\* group, each with the sum of the metric over its rows; the entries are
\* in descending order of value, equal values in order of first
\* appearance, and no omitted group has a larger value than a retained one.
C7_PivotTable ==
  LET n == Cardinality(PivotGroups)
      kept == {studioData[k].name : k \in DOMAIN studioData}
  IN /\ Len(studioData) = IF n < TopK THEN n ELSE TopK
     /\ Cardinality(kept) = Len(studioData)
     /\ kept \subseteq PivotGroups
     /\ \A k \in DOMAIN studioData :
          studioData[k].value = PivotTotal(studioData[k].name)
     /\ \A k, l \in DOMAIN studioData :
          k < l =>
            \/ studioData[k].value > studioData[l].value
            \/ /\ studioData[k].value = studioData[l].value
               /\ FirstSeen(studioData[k].name) < FirstSeen(studioData[l].name)
     /\ \A g \in PivotGroups \ kept :
          \A k \in DOMAIN studioData : PivotTotal(g) <= studioData[k].value

\* the three buckets with the sums of the age fields over all rows
ThreeBuckets ==
  /\ Len(demographicSplit) = 3
  /\ demographicSplit[1].name = "Infants (0-5)"
  /\ demographicSplit[1].value = FieldSum(rawData, "age_0_5", DOMAIN rawData)
  /\ demographicSplit[2].name = "Students (5-17)"
  /\ demographicSplit[2].value = FieldSum(rawData, "age_5_17", DOMAIN rawData)
  /\ demographicSplit[3].name = "Adults (18+)"
  /\ demographicSplit[3].value = FieldSum(rawData, "age_18_greater", DOMAIN rawData)

\* C8 as stated: for every record set, the empty one included, the
\* demographic split is the three buckets with the sums of age_0_5,
\* age_5_17 and age_18_greater.
C8_AlwaysThreeBuckets == summary = "done" => ThreeBuckets

\* C8 as amended: for every record set with at least one row the
\* demographic split is the three buckets with the sums of the age fields;
\* with zero rows it is the empty list.
C8_DemographicSplit ==
  IF Len(rawData) = 0 THEN demographicSplit = <<>> ELSE ThreeBuckets

\* C8 witness: three buckets over several rows, one of them without an
\* age_5_17 field, with non-zero sums.
C8_Witness ==
  /\ Len(rawData) >= 2
  /\ \E i \in DOMAIN rawData : "age_5_17" \notin DOMAIN rawData[i]
  /\ Len(demographicSplit) = 3
  /\ demographicSplit[1].value > 0
  /\ demographicSplit[2].value > 0
  /\ demographicSplit[3].value > 0
  /\ demographicSplit[2].value # demographicSplit[3].value

\* C9: while the forecast results are not available no briefing request is
\* in flight with a placeholder for the estimate or the confidence.
C9_NoPlaceholderRequest ==
  req # NoReq => req.volume # "N/A" /\ req.confidence # "NaN%"

\* C10: the selected model is 'XGBoost' or 'RandomForest', and the key the
\* briefing and KPI mapping derives from it is the key the Prediction Lab
\* derives from it: 'xgboost', respectively 'random_forest'.
C10_SelectedModel ==
  /\ activeModel \in {XGBoost, RandomForest}
  /\ ModelKey(activeModel) = LabKey(activeModel)
  /\ activeModel = XGBoost => LabKey(activeModel) = "xgboost"
  /\ activeModel = RandomForest => LabKey(activeModel) = "random_forest"

\* C10 witness: 'RandomForest' is selected after a toggle, with the
\* forecasts loaded and a briefing request settled.
C10_Witness ==
  /\ activeModel = RandomForest
  /\ predictionDetails # JsNull
  /\ lastRes # NoRes
  /\ req = NoReq

\* {aiBriefing && ...}: the briefing panel is rendered for a truthy value
Displayed(b) ==
  \/ b.type = "string" /\ b.text # ""
  \/ b.type = "number" /\ b.number # 0

\* C11: a briefing that is displayed when a request settles comes from a
\* request issued for the model that is selected then, and a step that
\* changes the selected model leaves no briefing displayed.
C11_BriefingOfSelectedModel ==
  [][/\ (CallSettled /\ Displayed(aiBriefing') => req.model = activeModel)
     /\ (activeModel' # activeModel => ~Displayed(aiBriefing'))]_vars

====
